---------------------------- MODULE Spec2Model ----------------------------
(***************************************************************************)
(* Model of the memory-mapped map index (MmapMapIndex) and of the index    *)
(* selector / builder dispatch of the payload field-index layer.           *)
(*                                                                         *)
(*   lib/segment/src/index/field_index/map_index/mmap_map_index.rs         *)
(*   lib/segment/src/index/field_index/index_selector.rs                   *)
(*                                                                         *)
(* Point identifiers are 0-based as in the code; the forward map is a TLA+ *)
(* sequence, so point p is element p + 1 of it.                            *)
(***************************************************************************)
EXTENDS Integers, Sequences, FiniteSets, TLC

\* ------------------------------------------------------------------ bounds

\* Largest number of points handed to build.
MaxPoints == 3

\* Largest number of deleted flags for which the length of deleted.bin is
\* computed (two 64-slot boundaries are inside).
MaxFlags == 130

\* ------------------------------------------------------- program constants

\* mmap_map_index.rs:98  const BITS_IN_BYTE: usize = 8;
BITS_IN_BYTE == 8

\* mmap_map_index.rs:19-21  the three files the index itself names.
DELETED_PATH == "deleted.bin"
HASHMAP_PATH == "values_to_points.bin"
CONFIG_PATH == "mmap_field_index_config.json"

\* ------------------------------------------------------------ value domain

\* The key type N, instantiated with two keyword values.
Values == {"a", "b"}

\* Option<T>: None is the empty tuple, Some(x) the one-element tuple.  A file
\* of the directory is an Option of its content (None: no such file).
None == <<>>
Some(x) == <<x>>
IsSome(opt) == Len(opt) = 1
Unwrap(opt) == opt[1]

\* The per-point value lists build is given.
ValueLists == {<<>>, <<"a">>, <<"b">>, <<"a", "b">>}

\* Vec<Vec<N::Owned>>: every forward map of at most MaxPoints points.
ForwardMaps == UNION {[1..n -> ValueLists] : n \in 0..MaxPoints}

SeqRange(s) == {s[i] : i \in 1..Len(s)}

RECURSIVE SumLens(_)
\* point_to_values.iter().map(|v| v.len()).sum()
SumLens(fwd) ==
    IF fwd = <<>> THEN 0 ELSE Len(Head(fwd)) + SumLens(Tail(fwd))

RECURSIVE AscendingSeq(_)
\* The elements of a finite set of naturals as an ascending sequence.
AscendingSeq(S) ==
    IF S = {} THEN <<>>
    ELSE LET m == CHOOSE x \in S : \A y \in S : x <= y
         IN <<m>> \o AscendingSeq(S \ {m})

\* The inverted map the caller precomputes from the same source data as the
\* forward map: value -> points that list it, in construction order.
InvertedOf(fwd) ==
    LET keys == UNION {SeqRange(fwd[i]) : i \in 1..Len(fwd)}
    IN [v \in keys |->
            AscendingSeq({p \in 0..(Len(fwd) - 1) : v \in SeqRange(fwd[p + 1])})]

\* usize::div_ceil
div_ceil(a, b) == (a + b - 1) \div b

\* ------------------------------------------------------------------- state

VARIABLES
    fs,         \* the index directory `path`: one field per file
    engine,     \* the MmapMapIndex instance in memory (meaningful unless phase = "none")
    forward,    \* the forward map build was given (the source data)
    inverted,   \* the inverted map build was given
    phase,      \* "none" | "built" | "loaded" | "used": what produced the engine state
    touched,    \* remove_point has been called since build
    watched,    \* Some(p) for a point p remove_point was called on in this instance, or None
    durable,    \* the engine's deleted view and indexed count at the last completed flush / load
    call,       \* the last index_selector / index_builder_selector call and its result
    existing_dirs,  \* the frozen-index directories that exist on disk
    clear_files,    \* clear(): the local `files`, the paths still to be removed
    fault,      \* the step at which the last build failed, or "none"
    reader      \* a reader of the engine: its position in get_values and what it got

vars ==
    <<fs, engine, forward, inverted, phase, touched, watched, durable, call, existing_dirs,
      clear_files, fault, reader>>

\* phase also takes the values "clearing" | "dropped" | "cleared" |
\* "clear_failed" (the steps and outcomes of clear), "build_failed",
\* "load_failed" and "damaged" (a file was lost or garbled from outside).
lifecycleVars == <<clear_files, fault, reader>>

selectorVars == <<call, existing_dirs>>

engineVars == <<fs, engine, forward, inverted, phase, touched, watched, durable>>

EmptyDir ==
    [config |-> None, hashmap |-> None, point_to_values |-> None, deleted |-> None]

\* ------------------------------------------------- collaborators of the index

\* MmapHashMap::create / open / get / keys_count: the file holds the map as given.
MmapHashMap_create(inv) == inv

MmapHashMap_get(h, value) ==
    IF value \in DOMAIN h THEN Some(h[value]) ELSE None

MmapHashMap_keys_count(h) == Cardinality(DOMAIN h)

\* MmapPointToValues::from_iter / len / get_values / get_values_count / check_values_any
MmapPointToValues_from_iter(fwd) == fwd

MmapPointToValues_len(p2v) == Len(p2v)

MmapPointToValues_get_values(p2v, idx) ==
    IF idx < Len(p2v) THEN Some(p2v[idx + 1]) ELSE None

MmapPointToValues_get_values_count(p2v, idx) ==
    IF idx < Len(p2v) THEN Some(Len(p2v[idx + 1])) ELSE None

MmapPointToValues_check_values_any(p2v, idx, pred) ==
    /\ idx < Len(p2v)
    /\ \E i \in 1..Len(p2v[idx + 1]) : p2v[idx + 1][i] \in pred

\* MmapBitSlice::from(mmap, 0): one bit per bit of the mapped file.
\* A bit file is [bytes |-> length in bytes, ones |-> indices of the set bits].
MmapBitSlice_len(file) == BITS_IN_BYTE * file.bytes

MmapBitSlice_count_ones(file) == Cardinality(file.ones)

\* MmapBitSliceBufferedUpdateWrapper: pending updates shadow the mapped bits.
\* Only `true` is ever written, so the buffer is the set of indices set.
BufferedWrapper_new == {}

BufferedWrapper_len(file) == MmapBitSlice_len(file)

BufferedWrapper_get(pending, file, idx) ==
    IF idx >= MmapBitSlice_len(file) THEN None
    ELSE Some((idx \in pending) \/ (idx \in file.ones))

\* Option<bool>::unwrap_or(true)
unwrap_or_true(opt) == IF IsSome(opt) THEN Unwrap(opt) ELSE TRUE

\* The flush closure of the wrapper, invoked: the pending updates are written
\* to the mapped bits, which are then synced to the file.
BufferedWrapper_flush(pending, file) ==
    [pending |-> {}, file |-> [file EXCEPT !.ones = @ \cup pending]]

\* memory::mmap_ops::create_and_ensure_length, then MmapMut::fill(0)
create_and_ensure_length(bytes) == [bytes |-> bytes, ones |-> {}]

\* MmapBitSlice::set(idx, true) on the mapped file
MmapBitSlice_set(file, idx) == [file EXCEPT !.ones = @ \cup {idx}]

\* ------------------------------------------------------------ MmapMapIndex

\* The struct's fields; `deleted` is the wrapper's pending buffer, its mapped
\* bits are the file fs.deleted.
BlankEngine ==
    [value_to_points |-> <<>>, point_to_values |-> <<>>, deleted |-> {},
     deleted_count |-> 0, total_key_value_pairs |-> 0]

\* MmapMapIndex::load: None stands for Err(..)
load(d) ==
    IF ~IsSome(d.config) THEN None
    ELSE IF ~IsSome(d.hashmap) THEN None
    ELSE IF ~IsSome(d.point_to_values) THEN None
    ELSE IF ~IsSome(d.deleted) THEN None
    ELSE Some([value_to_points |-> Unwrap(d.hashmap),
               point_to_values |-> Unwrap(d.point_to_values),
               deleted |-> BufferedWrapper_new,
               deleted_count |-> MmapBitSlice_count_ones(Unwrap(d.deleted)),
               total_key_value_pairs |-> Unwrap(d.config).total_key_value_pairs])

\* Mutant of build_config: the points are counted instead of the pairs.
build_config_counting_points(fwd) == [total_key_value_pairs |-> Len(fwd)]

\* build, lines 71-76: the config record
build_config(fwd) == [total_key_value_pairs |-> SumLens(fwd)]

\* build, lines 78-83: the hash map file
build_hashmap(inv) == MmapHashMap_create(inv)

\* build, lines 85-95: the point-to-values store
build_point_to_values(fwd) == MmapPointToValues_from_iter(fwd)

\* Mutant of deleted_file_bytes: the length is rounded down, not up.
deleted_file_bytes_rounded_down(deleted_flags_count) ==
    BITS_IN_BYTE * BITS_IN_BYTE
        * (deleted_flags_count \div (BITS_IN_BYTE * BITS_IN_BYTE))

\* build, lines 99-105: the length in bytes of deleted.bin
deleted_file_bytes(deleted_flags_count) ==
    BITS_IN_BYTE * BITS_IN_BYTE
        * div_ceil(deleted_flags_count, BITS_IN_BYTE * BITS_IN_BYTE)

RECURSIVE set_empty_flags(_, _, _)
\* build, lines 109-113: for (idx, values) in enumerate: if values.is_empty() set(idx, true)
set_empty_flags(file, fwd, idx) ==
    IF idx >= Len(fwd) THEN file
    ELSE set_empty_flags(
             IF Len(fwd[idx + 1]) = 0 THEN MmapBitSlice_set(file, idx) ELSE file,
             fwd, idx + 1)

\* Mutant of build_deleted: the loop over the empty value lists is left out.
build_deleted_no_flags(fwd) ==
    create_and_ensure_length(deleted_file_bytes(Len(fwd)))

\* build, lines 97-114: deleted.bin
build_deleted(fwd) ==
    set_empty_flags(create_and_ensure_length(deleted_file_bytes(Len(fwd))), fwd, 0)

\* build, lines 62-114: the directory after the four writes
build_dir(fwd, inv) ==
    [config |-> Some(build_config(fwd)),
     hashmap |-> Some(build_hashmap(inv)),
     point_to_values |-> Some(build_point_to_values(fwd)),
     deleted |-> Some(build_deleted(fwd))]

\* Mutant of remove_point: the flag is counted but never set.
remove_point_count_only(e, bits, idx) ==
    IF /\ idx < BufferedWrapper_len(bits)
       /\ ~unwrap_or_true(BufferedWrapper_get(e.deleted, bits, idx))
    THEN [e EXCEPT !.deleted_count = @ + 1]
    ELSE e

\* Mutant of remove_point: the removed point's pairs are taken off the total.
remove_point_decrementing_pairs(e, bits, idx) ==
    IF /\ idx < BufferedWrapper_len(bits)
       /\ ~unwrap_or_true(BufferedWrapper_get(e.deleted, bits, idx))
    THEN [e EXCEPT !.deleted = @ \cup {idx}, !.deleted_count = @ + 1,
                   !.total_key_value_pairs =
                       @ - (IF idx < Len(e.point_to_values)
                            THEN Len(e.point_to_values[idx + 1]) ELSE 0)]
    ELSE e

\* Mutant of remove_point: the removed point is also taken out of the
\* value-to-points lists.
remove_point_purging(e, bits, idx) ==
    IF /\ idx < BufferedWrapper_len(bits)
       /\ ~unwrap_or_true(BufferedWrapper_get(e.deleted, bits, idx))
    THEN [e EXCEPT !.deleted = @ \cup {idx}, !.deleted_count = @ + 1,
                   !.value_to_points =
                       [v \in DOMAIN @ |-> SelectSeq(@[v], LAMBDA q : q # idx)]]
    ELSE e

\* Mutant of remove_point: the flag is set and counted whether or not it was
\* set already.
remove_point_always_counting(e, bits, idx) ==
    IF idx < BufferedWrapper_len(bits)
    THEN [e EXCEPT !.deleted = @ \cup {idx}, !.deleted_count = @ + 1]
    ELSE e

\* The file of the point-to-values store.
POINT_TO_VALUES_PATH == "point_to_values.bin"

\* MmapPointToValues::files
MmapPointToValues_files == <<POINT_TO_VALUES_PATH>>

\* Mutant of files: the files of the point-to-values store are not listed.
files_without_store == <<HASHMAP_PATH, DELETED_PATH, CONFIG_PATH>>

\* MmapMapIndex::files
files == <<HASHMAP_PATH, DELETED_PATH, CONFIG_PATH>> \o MmapPointToValues_files

\* path.join(<file name>): the field of the directory that holds the file
FileField(name) ==
    CASE name = HASHMAP_PATH -> "hashmap"
      [] name = DELETED_PATH -> "deleted"
      [] name = CONFIG_PATH -> "config"
      [] name = POINT_TO_VALUES_PATH -> "point_to_values"

\* std::fs::remove_file
remove_file(d, name) == [d EXCEPT ![FileField(name)] = None]

\* The files of a directory that exist (well-formed or not).
ExistingFiles(d) ==
    {name \in {HASHMAP_PATH, DELETED_PATH, CONFIG_PATH, POINT_TO_VALUES_PATH} :
         d[FileField(name)] # None}

\* The steps of build that can fail, in order: lines 71-76, 78-83, 85-95,
\* 100-105 (create_and_ensure_length) and 106 (MmapMut::map_mut).
BuildSteps == <<"config", "hashmap", "point_to_values", "create_deleted", "map_deleted">>

\* The directory build leaves when its step number k returns an error: the
\* files of the steps before it; deleted.bin is created, with its length and
\* zero-filled, before it is mapped.
build_failing_at(fwd, inv, k) ==
    [config |-> IF k > 1 THEN Some(build_config(fwd)) ELSE None,
     hashmap |-> IF k > 2 THEN Some(build_hashmap(inv)) ELSE None,
     point_to_values |-> IF k > 3 THEN Some(build_point_to_values(fwd)) ELSE None,
     deleted |-> IF k > 4
                 THEN Some(create_and_ensure_length(deleted_file_bytes(Len(fwd))))
                 ELSE None]

\* Mutant of remove_point: the values of the removed point are wiped from the
\* point-to-values store as well.
remove_point_clearing_store(e, bits, idx) ==
    IF /\ idx < BufferedWrapper_len(bits)
       /\ ~unwrap_or_true(BufferedWrapper_get(e.deleted, bits, idx))
    THEN [e EXCEPT !.deleted = @ \cup {idx}, !.deleted_count = @ + 1,
                   !.point_to_values = IF idx < Len(@) THEN [@ EXCEPT ![idx + 1] = <<>>] ELSE @]
    ELSE e

\* MmapMapIndex::remove_point: the engine after the call (bits: the mapped file)
remove_point(e, bits, idx) ==
    IF /\ idx < BufferedWrapper_len(bits)
       /\ ~unwrap_or_true(BufferedWrapper_get(e.deleted, bits, idx))
    THEN [e EXCEPT !.deleted = @ \cup {idx}, !.deleted_count = @ + 1]
    ELSE e

\* Mutant of flusher: the pending updates are dropped, not written.
flusher_discarding(e, bits) == [pending |-> {}, file |-> bits]

\* MmapMapIndex::flusher, invoked: the wrapper's flush
flusher(e, bits) == BufferedWrapper_flush(e.deleted, bits)

\* MmapMapIndex::check_values_any; pred is the set of values check_fn accepts
check_values_any(e, bits, idx, pred) ==
    IF unwrap_or_true(BufferedWrapper_get(e.deleted, bits, idx))
    THEN MmapPointToValues_check_values_any(e.point_to_values, idx, pred)
    ELSE FALSE

\* Mutant of get_values: an absent entry of the store is flattened into an
\* empty sequence of values.
get_values_flattening(e, bits, idx) ==
    IF ~unwrap_or_true(BufferedWrapper_get(e.deleted, bits, idx))
    THEN LET got == MmapPointToValues_get_values(e.point_to_values, idx)
         IN Some(IF IsSome(got) THEN Unwrap(got) ELSE <<>>)
    ELSE None

\* MmapMapIndex::get_values
get_values(e, bits, idx) ==
    IF ~unwrap_or_true(BufferedWrapper_get(e.deleted, bits, idx))
    THEN MmapPointToValues_get_values(e.point_to_values, idx)
    ELSE None

\* MmapMapIndex::values_count
values_count(e, bits, idx) ==
    IF ~unwrap_or_true(BufferedWrapper_get(e.deleted, bits, idx))
    THEN MmapPointToValues_get_values_count(e.point_to_values, idx)
    ELSE None

\* usize::saturating_sub
saturating_sub(a, b) == IF a >= b THEN a - b ELSE 0

\* MmapMapIndex::get_indexed_points
get_indexed_points(e) ==
    saturating_sub(MmapPointToValues_len(e.point_to_values), e.deleted_count)

\* MmapMapIndex::get_values_count
get_values_count(e) == e.total_key_value_pairs

\* MmapMapIndex::get_unique_values_count
get_unique_values_count(e) == MmapHashMap_keys_count(e.value_to_points)

\* MmapMapIndex::get_count_for_value
get_count_for_value(e, value) ==
    LET got == MmapHashMap_get(e.value_to_points, value)
    IN IF IsSome(got) THEN Some(Len(Unwrap(got))) ELSE None

\* MmapMapIndex::get_iterator: the points the iterator yields, in order
get_iterator(e, value) ==
    LET got == MmapHashMap_get(e.value_to_points, value)
    IN IF IsSome(got) THEN Unwrap(got) ELSE <<>>

\* MmapMapIndex::iter_values: the keys yielded (iteration order unspecified)
iter_values(e) == DOMAIN e.value_to_points

\* MmapMapIndex::iter_counts_per_value: the (value, count) pairs yielded
iter_counts_per_value(e) ==
    {<<k, Len(e.value_to_points[k])>> : k \in DOMAIN e.value_to_points}

\* ---------------------------------------------------------- index selector

\* PayloadSchemaParams, as payload_schema.expand() yields it.
Schemas ==
    {[type |-> t] : t \in {"Keyword", "Float", "Geo", "Bool", "Datetime", "Uuid"}}
    \cup {[type |-> "Integer", lookup |-> l, range |-> r] : l \in BOOLEAN, r \in BOOLEAN}
    \cup {[type |-> "Text", params |-> tp] : tp \in {"word", "prefix"}}

\* The field paths (JsonPath) an index is selected for.
Fields == {"f", "g.h"}

\* Option<PathBuf>: the frozen-index directory, if any.
MmapDirs == {None, Some("mmap_dir")}

\* JsonPath::to_string
column_of(field) == field

\* bool::then(|| x)
then(b, x) == IF b THEN Some(x) ELSE None

\* itertools::chain of two Options, collected
chain(a, b) == a \o b

\* The index constructors the selector calls; db is the one shared handle.
MapIndex_new(column, is_appendable) ==
    [index |-> "MapIndex", ctor |-> "new", column |-> Some(column),
     dir |-> None, is_appendable |-> Some(is_appendable), params |-> None]

NumericIndex_new(column, is_appendable) ==
    [index |-> "NumericIndex", ctor |-> "new", column |-> Some(column),
     dir |-> None, is_appendable |-> Some(is_appendable), params |-> None]

NumericIndex_new_mmap(dir) ==
    [index |-> "NumericIndex", ctor |-> "new_mmap", column |-> None,
     dir |-> Some(dir), is_appendable |-> None, params |-> None]

GeoMapIndex_new(column, is_appendable) ==
    [index |-> "GeoMapIndex", ctor |-> "new", column |-> Some(column),
     dir |-> None, is_appendable |-> Some(is_appendable), params |-> None]

FullTextIndex_new(params, column, is_appendable) ==
    [index |-> "FullTextIndex", ctor |-> "new", column |-> Some(column),
     dir |-> None, is_appendable |-> Some(is_appendable), params |-> Some(params)]

BinaryIndex_new(column) ==
    [index |-> "BinaryIndex", ctor |-> "new", column |-> Some(column),
     dir |-> None, is_appendable |-> None, params |-> None]

\* FieldIndex::<variant>(inner)
FieldIndex(variant, inner) == [variant |-> variant, inner |-> inner]

\* Ok(vec) / Err(e) of OperationResult<Vec<FieldIndex>>; Panic: unwrap() of an Err
Ok(v) == [status |-> "ok", value |-> v]
Error == [status |-> "err", value |-> <<>>]
Panic == [status |-> "panic", value |-> <<>>]

\* Mutant of numeric_index: the frozen directory is ignored.
numeric_index_ignoring_dir(mmap_index_dir, column, is_appendable, mmap_ok) ==
    Some(NumericIndex_new(column, is_appendable))

\* match &mmap_index_dir { Some(dir) => NumericIndex::new_mmap(dir)?, None => NumericIndex::new(..) }
\* mmap_ok: whether new_mmap(dir) succeeds.  None stands for the early return of `?`.
numeric_index(mmap_index_dir, column, is_appendable, mmap_ok) ==
    IF IsSome(mmap_index_dir)
    THEN (IF mmap_ok THEN Some(NumericIndex_new_mmap(Unwrap(mmap_index_dir))) ELSE None)
    ELSE Some(NumericIndex_new(column, is_appendable))

\* Mutant of index_selector_integer: the range index is chained first.
index_selector_integer_range_first(integer_params, mmap_index_dir, column, is_appendable, mmap_ok) ==
    LET n == numeric_index(mmap_index_dir, column, is_appendable, mmap_ok)
    IN IF integer_params.range /\ ~IsSome(n) THEN Error
       ELSE Ok(chain(
                IF integer_params.range
                THEN Some(FieldIndex("IntIndex", Unwrap(n)))
                ELSE None,
                then(integer_params.lookup,
                     FieldIndex("IntMapIndex", MapIndex_new(column, is_appendable)))))

\* The Integer arm of index_selector, lines 35-49
index_selector_integer(integer_params, mmap_index_dir, column, is_appendable, mmap_ok) ==
    LET n == numeric_index(mmap_index_dir, column, is_appendable, mmap_ok)
    IN IF integer_params.range /\ ~IsSome(n) THEN Error
       ELSE Ok(chain(
                then(integer_params.lookup,
                     FieldIndex("IntMapIndex", MapIndex_new(column, is_appendable))),
                IF integer_params.range
                THEN Some(FieldIndex("IntIndex", Unwrap(n)))
                ELSE None))

\* A one-element vec![FieldIndex::<variant>(numeric index)] arm
index_selector_numeric(variant, mmap_index_dir, column, is_appendable, mmap_ok) ==
    LET n == numeric_index(mmap_index_dir, column, is_appendable, mmap_ok)
    IN IF IsSome(n) THEN Ok(<<FieldIndex(variant, Unwrap(n))>>) ELSE Error

\* index_selector
index_selector(field, payload_schema, mmap_index_dir, is_appendable, mmap_ok) ==
    LET column == column_of(field)
    IN CASE payload_schema.type = "Keyword" ->
              Ok(<<FieldIndex("KeywordIndex", MapIndex_new(column, is_appendable))>>)
         [] payload_schema.type = "Integer" ->
              index_selector_integer(payload_schema, mmap_index_dir, column,
                                     is_appendable, mmap_ok)
         [] payload_schema.type = "Float" ->
              index_selector_numeric("FloatIndex", mmap_index_dir, column,
                                     is_appendable, mmap_ok)
         [] payload_schema.type = "Geo" ->
              Ok(<<FieldIndex("GeoIndex", GeoMapIndex_new(column, is_appendable))>>)
         [] payload_schema.type = "Text" ->
              Ok(<<FieldIndex("FullTextIndex",
                              FullTextIndex_new(payload_schema.params, column,
                                                is_appendable))>>)
         [] payload_schema.type = "Bool" ->
              Ok(<<FieldIndex("BinaryIndex", BinaryIndex_new(column))>>)
         [] payload_schema.type = "Datetime" ->
              index_selector_numeric("DatetimeIndex", mmap_index_dir, column,
                                     is_appendable, mmap_ok)
         [] payload_schema.type = "Uuid" ->
              index_selector_numeric("UuidIndex", mmap_index_dir, column,
                                     is_appendable, mmap_ok)

\* The builder constructors index_builder_selector calls.
Builder(index, ctor, column, dir, params) ==
    [index |-> index, ctor |-> ctor, column |-> column, dir |-> dir, params |-> params]

\* FieldIndexBuilder::<variant>(inner)
FieldIndexBuilder(variant, inner) == [variant |-> variant, inner |-> inner]

\* match &mmap_index_dir { Some(dir) => <mmap variant>(builder_mmap(dir)), None => <variant>(builder(db, &column)) }
numeric_builder(mmap_variant, variant, mmap_index_dir, column) ==
    IF IsSome(mmap_index_dir)
    THEN FieldIndexBuilder(mmap_variant,
             Builder("NumericIndex", "builder_mmap", None, mmap_index_dir, None))
    ELSE FieldIndexBuilder(variant,
             Builder("NumericIndex", "builder", Some(column), None, None))

\* Mutant of index_builder_selector_integer: the lookup builder is left out.
index_builder_selector_integer_range_only(integer_params, mmap_index_dir, column) ==
    then(integer_params.range,
         numeric_builder("IntMmapIndex", "IntIndex", mmap_index_dir, column))

\* The Integer arm of index_builder_selector, lines 107-116
index_builder_selector_integer(integer_params, mmap_index_dir, column) ==
    chain(then(integer_params.lookup,
               FieldIndexBuilder("IntMapIndex",
                   Builder("MapIndex", "builder", Some(column), None, None))),
          then(integer_params.range,
               numeric_builder("IntMmapIndex", "IntIndex", mmap_index_dir, column)))

\* index_builder_selector, lines 103-148: the builders returned
index_builder_selector(field, payload_schema, mmap_index_dir) ==
    LET column == column_of(field)
    IN CASE payload_schema.type = "Keyword" ->
              <<FieldIndexBuilder("KeywordIndex",
                    Builder("MapIndex", "builder", Some(column), None, None))>>
         [] payload_schema.type = "Integer" ->
              index_builder_selector_integer(payload_schema, mmap_index_dir, column)
         [] payload_schema.type = "Float" ->
              <<numeric_builder("FloatMmapIndex", "FloatIndex", mmap_index_dir, column)>>
         [] payload_schema.type = "Geo" ->
              <<FieldIndexBuilder("GeoIndex",
                    Builder("GeoMapIndex", "builder", Some(column), None, None))>>
         [] payload_schema.type = "Text" ->
              <<FieldIndexBuilder("FullTextIndex",
                    Builder("FullTextIndex", "builder", Some(column), None,
                            Some(payload_schema.params)))>>
         [] payload_schema.type = "Bool" ->
              <<FieldIndexBuilder("BinaryIndex",
                    Builder("BinaryIndex", "builder", Some(column), None, None))>>
         [] payload_schema.type = "Datetime" ->
              <<numeric_builder("FloatMmapIndex", "FloatIndex", mmap_index_dir, column)>>
         [] payload_schema.type = "Uuid" ->
              <<numeric_builder("DatetimeMmapIndex", "DatetimeIndex", mmap_index_dir,
                                column)>>

\* ----------------------------------------------------------------- actions

\* The mapped deleted.bin of the open engine.
Bits == Unwrap(fs.deleted)

\* The point arguments tried: every known point, padding slots of the bit
\* vector, and the first index past the bit vector built for MaxPoints points.
PointArgs == (0..MaxPoints) \cup {BITS_IN_BYTE * deleted_file_bytes(MaxPoints)}

\* The predicates tried with check_values_any, each as the set it accepts.
Predicates == SUBSET Values

\* What an engine reports: the points it treats as deleted and its indexed count.
View(e, bits) ==
    [deleted |-> {p \in PointArgs : unwrap_or_true(BufferedWrapper_get(e.deleted, bits, p))},
     indexed |-> get_indexed_points(e)]

\* The reader before its first read.
IdleReader == [pc |-> "idle", idx |-> 0, result |-> None, prior |-> FALSE]

NoCall ==
    [op |-> "none", field |-> "f", schema |-> [type |-> "Keyword"],
     mmap_index_dir |-> None, is_appendable |-> FALSE, result |-> Ok(<<>>)]

Init ==
    /\ fs = EmptyDir
    /\ engine = BlankEngine
    /\ forward = <<>>
    /\ inverted = <<>>
    /\ phase = "none"
    /\ touched = FALSE
    /\ watched = None
    /\ durable = [deleted |-> {}, indexed |-> 0]
    /\ call = NoCall
    /\ existing_dirs = {}
    /\ clear_files = <<>>
    /\ fault = "none"
    /\ reader = IdleReader

\* An engine is open: build or load returned it and clear has not taken it.
EngineOpen == phase \in {"built", "loaded", "used"}

\* MmapMapIndex::build(path, point_to_values, values_to_points): the four
\* files are written, then the index is loaded from them.
Build ==
    /\ phase = "none"
    /\ \E fwd \in ForwardMaps :
          LET inv == InvertedOf(fwd)
              d == build_dir(fwd, inv)
              e == load(d)
          IN /\ IsSome(e)
             /\ fs' = d
             /\ engine' = Unwrap(e)
             /\ forward' = fwd
             /\ inverted' = inv
             /\ durable' = View(Unwrap(e), Unwrap(d.deleted))
    /\ phase' = "built"
    /\ touched' = FALSE
    /\ watched' = None
    /\ UNCHANGED <<selectorVars, lifecycleVars>>

\* The engine is discarded (dropped, or the process dies) without a flush of
\* its own, and the directory is opened again with MmapMapIndex::load.
Reload ==
    /\ EngineOpen
    /\ LET e == load(fs)
       IN /\ IsSome(e)
          /\ engine' = Unwrap(e)
    /\ phase' = "loaded"
    /\ watched' = None
    /\ UNCHANGED <<fs, forward, inverted, touched, durable, selectorVars, lifecycleVars>>

\* engine.remove_point(idx)
RemovePoint ==
    /\ EngineOpen
    /\ \E idx \in PointArgs :
          /\ engine' = remove_point(engine, Bits, idx)
          /\ watched' \in (IF watched = None THEN {None, Some(idx)} ELSE {watched})
    /\ phase' = "used"
    /\ touched' = TRUE
    /\ UNCHANGED <<fs, forward, inverted, durable, selectorVars, lifecycleVars>>

\* (engine.flusher())(): the flush operation is invoked and completes.
Flush ==
    /\ EngineOpen
    /\ LET r == flusher(engine, Bits)
       IN /\ engine' = [engine EXCEPT !.deleted = r.pending]
          /\ fs' = [fs EXCEPT !.deleted = Some(r.file)]
    /\ durable' = View(engine, Bits)
    /\ phase' = "used"
    /\ UNCHANGED <<forward, inverted, touched, watched, selectorVars, lifecycleVars>>

\* get_values(idx), line 163: the reader tests the deleted flag of idx.  A
\* reader reads the same point again and again; prior tells that one of its
\* completed reads found the point absent.
ReadStart ==
    /\ EngineOpen
    /\ reader.pc \in {"idle", "done"}
    /\ \E idx \in (IF reader.pc = "idle" THEN PointArgs ELSE {reader.idx}) :
          LET live == ~unwrap_or_true(BufferedWrapper_get(engine.deleted, Bits, idx))
          IN reader' = [pc |-> IF live THEN "checked" ELSE "done",
                        idx |-> idx,
                        result |-> None,
                        prior |-> reader.prior \/ (reader.pc = "done" /\ reader.result = None)]
    /\ UNCHANGED <<engineVars, selectorVars, clear_files, fault>>

\* get_values(idx), line 164: the reader, having found the flag clear, takes
\* the values of idx from the point-to-values store.
ReadFinish ==
    /\ EngineOpen
    /\ reader.pc = "checked"
    /\ reader' = [reader EXCEPT
                     !.pc = "done",
                     !.result = MmapPointToValues_get_values(engine.point_to_values, reader.idx)]
    /\ UNCHANGED <<engineVars, selectorVars, clear_files, fault>>

\* A file that exists but cannot be parsed: read_json, MmapHashMap::open and
\* MmapPointToValues::open return an error on it, as on a missing file.
Malformed(file) == file \o <<"malformed">>

\* A build or a clear returned an error: no engine is open on the directory.
Abandoned == phase \in {"build_failed", "clear_failed"}

\* MmapMapIndex::build returns an error at one of its steps (a `?` of lines
\* 71-106): no engine is returned, the files written so far stay.
BuildFails ==
    /\ phase = "none"
    /\ \E fwd \in ForwardMaps, k \in 1..Len(BuildSteps) :
          /\ fs' = build_failing_at(fwd, InvertedOf(fwd), k)
          /\ forward' = fwd
          /\ inverted' = InvertedOf(fwd)
          /\ fault' = BuildSteps[k]
    /\ phase' = "build_failed"
    /\ UNCHANGED <<engine, touched, watched, durable, selectorVars, clear_files, reader>>

\* Something outside the engine removes one file of an abandoned directory,
\* or garbles one of the three files that have a format.
Damage ==
    /\ Abandoned
    /\ \E name \in ExistingFiles(fs) :
          LET f == FileField(name)
          IN \/ fs' = remove_file(fs, name)
             \/ /\ IsSome(fs[f])
                /\ name # DELETED_PATH
                /\ fs' = [fs EXCEPT ![f] = Malformed(fs[f])]
    /\ phase' = "damaged"
    /\ UNCHANGED <<engine, forward, inverted, touched, watched, durable, selectorVars,
                   lifecycleVars>>

\* MmapMapIndex::load(path) on an abandoned directory, damaged since or not.
LoadAttempt ==
    /\ Abandoned \/ phase = "damaged"
    /\ LET e == load(fs)
       IN IF IsSome(e)
          THEN /\ engine' = Unwrap(e)
               /\ durable' = View(Unwrap(e), Bits)
               /\ phase' = "loaded"
          ELSE /\ phase' = "load_failed"
               /\ UNCHANGED <<engine, durable>>
    /\ UNCHANGED <<fs, forward, inverted, touched, watched, selectorVars, lifecycleVars>>

\* clear(self), line 124: `let files = self.files();`
ClearEnumerate ==
    /\ EngineOpen
    /\ clear_files' = files
    /\ phase' = "clearing"
    /\ touched' = FALSE
    /\ watched' = None
    /\ UNCHANGED <<fs, engine, forward, inverted, durable, selectorVars, fault, reader>>

\* clear(self), line 125: `drop(self);` releases the mappings; the pending
\* changes of the buffered wrapper go with the engine.
ClearDrop ==
    /\ phase = "clearing"
    /\ engine' = BlankEngine
    /\ durable' = View(BlankEngine, [bytes |-> 0, ones |-> {}])
    /\ phase' = "dropped"
    /\ UNCHANGED <<fs, forward, inverted, touched, watched, selectorVars, lifecycleVars>>

\* clear(self), lines 126-128: one turn of `for file in files {
\* std::fs::remove_file(file)?; }`; remove_file returns an error on a file
\* that does not exist, and may return one for a file that does.
ClearRemove ==
    /\ phase = "dropped"
    /\ clear_files # <<>>
    /\ \E ok \in BOOLEAN :
          IF ok /\ Head(clear_files) \in ExistingFiles(fs)
          THEN /\ fs' = remove_file(fs, Head(clear_files))
               /\ clear_files' = Tail(clear_files)
               /\ UNCHANGED phase
          ELSE /\ phase' = "clear_failed"
               /\ UNCHANGED <<fs, clear_files>>
    /\ UNCHANGED <<engine, forward, inverted, touched, watched, durable, selectorVars,
                   fault, reader>>

\* clear(self), line 129: `Ok(())` once every file is removed.
ClearDone ==
    /\ phase = "dropped"
    /\ clear_files = <<>>
    /\ phase' = "cleared"
    /\ UNCHANGED <<fs, engine, forward, inverted, touched, watched, durable, selectorVars,
                   lifecycleVars>>

\* A call of index_selector.  NumericIndex::new_mmap(dir) can only succeed on
\* a directory that exists.
IndexSelector ==
    /\ \E field \in Fields, schema \in Schemas, d \in MmapDirs,
          is_appendable \in BOOLEAN, mmap_ok \in BOOLEAN :
          /\ mmap_ok => (IsSome(d) /\ Unwrap(d) \in existing_dirs)
          /\ call' = [op |-> "index_selector", field |-> field, schema |-> schema,
                      mmap_index_dir |-> d, is_appendable |-> is_appendable,
                      result |-> index_selector(field, schema, d, is_appendable, mmap_ok)]
    /\ UNCHANGED <<engineVars, existing_dirs, lifecycleVars>>

\* A call of index_builder_selector: create_dir_all(dir).unwrap(), then the
\* builders.  create_ok: whether create_dir_all succeeds.
IndexBuilderSelector ==
    /\ \E field \in Fields, schema \in Schemas, d \in MmapDirs, create_ok \in BOOLEAN :
          IF IsSome(d) /\ ~create_ok
          THEN /\ call' = [op |-> "index_builder_selector", field |-> field,
                           schema |-> schema, mmap_index_dir |-> d,
                           is_appendable |-> FALSE, result |-> Panic]
               /\ UNCHANGED existing_dirs
          ELSE /\ call' = [op |-> "index_builder_selector", field |-> field,
                           schema |-> schema, mmap_index_dir |-> d,
                           is_appendable |-> FALSE,
                           result |-> Ok(index_builder_selector(field, schema, d))]
               /\ existing_dirs' = existing_dirs \cup {d[i] : i \in 1..Len(d)}
    /\ UNCHANGED <<engineVars, lifecycleVars>>

\* The frozen map index: build, queries, soft deletes, flush, reopen.
Next == Build \/ Reload \/ RemovePoint \/ Flush

Spec == Init /\ [][Next]_vars

\* The type dispatch layer.
\* The life of a directory: builds that succeed or fail, clear, loss or
\* damage of files, and attempts to load.
LifecycleNext ==
    \/ Build
    \/ BuildFails
    \/ Damage
    \/ LoadAttempt
    \/ ClearEnumerate
    \/ ClearDrop
    \/ ClearRemove
    \/ ClearDone

LifecycleSpec == Init /\ [][LifecycleNext]_vars

\* One engine with a reader at work beside remove_point and the flush
\* operation; the steps of a read interleave with them.  No removal is
\* singled out to be watched here.
ConcurrentNext ==
    /\ watched' = None
    /\ \/ Build
       \/ RemovePoint
       \/ Flush
       \/ ReadStart
       \/ ReadFinish

ConcurrentSpec == Init /\ [][ConcurrentNext]_vars

SelectorNext == IndexSelector \/ IndexBuilderSelector

SelectorSpec == Init /\ [][SelectorNext]_vars

\* ------------------------------------------------------------------ claims

Built == phase # "none"

\* The points build was given.
Points == 0..(Len(forward) - 1)

\* The deleted flag of slot p as every query path reads it.
MarkedDeleted(p) == unwrap_or_true(BufferedWrapper_get(engine.deleted, Bits, p))

\* p is live: known to the point-to-values store and not marked deleted.
IsLive(p) == p < MmapPointToValues_len(engine.point_to_values) /\ ~MarkedDeleted(p)

\* The values an Option<iterator> yields: none when it is None.
ValuesYielded(opt) == IF IsSome(opt) THEN Unwrap(opt) ELSE <<>>

\* The points with at least one value in the source data.
NonEmptyPoints == {p \in Points : forward[p + 1] # <<>>}

\* The inverted source map as the index should answer for value v.
SourcePoints(v) == IF v \in DOMAIN inverted THEN inverted[v] ELSE <<>>

SourceCount(v) == IF v \in DOMAIN inverted THEN Some(Len(inverted[v])) ELSE None

\* The forward map of the scenario of the specification: [[], [a, b], [a]].
ScenarioForward == <<<<>>, <<"a", "b">>, <<"a">>>>

\* C1: for every point p and every predicate, check_values_any(p, predicate)
\* is true if and only if p is live (in range and not marked deleted) and at
\* least one of p's stored values satisfies the predicate.
C1_CheckValuesAnyIffLiveMatch ==
    Built =>
        \A p \in PointArgs, pred \in Predicates :
            check_values_any(engine, Bits, p, pred)
                <=> (/\ IsLive(p)
                     /\ \E v \in SeqRange(engine.point_to_values[p + 1]) : v \in pred)

\* C2: once remove_point(p) has been called on an engine instance, in every
\* later state of that instance get_values(p) and values_count(p) are absent,
\* and another remove_point(p) is a no-op that leaves get_indexed_points() as
\* it is.
C2_DeletionMonotonic ==
    IsSome(watched) =>
        LET p == Unwrap(watched)
        IN /\ get_values(engine, Bits, p) = None
           /\ values_count(engine, Bits, p) = None
           /\ remove_point(engine, Bits, p) = engine
           /\ get_indexed_points(remove_point(engine, Bits, p))
                  = get_indexed_points(engine)

\* A point with values was removed in this instance, and later operations
\* (a flush) have run on the instance.
C2_Witness ==
    /\ IsSome(watched)
    /\ Unwrap(watched) \in NonEmptyPoints
    /\ engine.deleted = {}
    /\ phase = "used"

\* C3: a fresh load reproduces exactly the deleted set, and the indexed point
\* count, the engine had when the flush operation last completed; deletions
\* made after it (or with no flush at all) are not there after the load.
C3_FlushDurability ==
    phase = "loaded" => View(engine, Bits) = durable

\* A removed point with values survived a flush and a fresh load.
C3_Witness ==
    /\ phase = "loaded"
    /\ \E p \in NonEmptyPoints : p \in View(engine, Bits).deleted

\* C4: after build or load and after every sequence of remove_point calls,
\* with any point arguments, get_indexed_points() equals the number of
\* forward entries minus the deleted count.
C4_DeletedCountInvariant ==
    Built =>
        get_indexed_points(engine)
            = MmapPointToValues_len(engine.point_to_values) - engine.deleted_count

\* C5: before any deletion, the engine build returns and the engine a later
\* load of the directory returns answer get_values, get_iterator,
\* get_count_for_value, get_unique_values_count and get_values_count as the
\* source maps have it (a point with no values yields none: get_values is
\* absent for it).
C5_RoundTrip ==
    (phase \in {"built", "loaded"} /\ ~touched) =>
        /\ \A p \in Points :
               ValuesYielded(get_values(engine, Bits, p)) = forward[p + 1]
        /\ \A p \in NonEmptyPoints :
               get_values(engine, Bits, p) = Some(forward[p + 1])
        /\ \A v \in Values :
               /\ get_iterator(engine, v) = SourcePoints(v)
               /\ get_count_for_value(engine, v) = SourceCount(v)
        /\ get_unique_values_count(engine) = Cardinality(DOMAIN inverted)
        /\ get_values_count(engine) = SumLens(forward)

\* The scenario's maps were built and the directory loaded again.
C5_Witness ==
    /\ phase = "loaded"
    /\ ~touched
    /\ forward = ScenarioForward

\* C6: immediately after build a point slot is marked deleted if and only if
\* the point's forward value list is empty, so get_indexed_points() is the
\* number of points with at least one value; for [[], [a, b], [a]] the
\* counts are 2 indexed points, 3 values, 2 unique values, 2 points for a.
C6_BuildMarksEmptyPoints ==
    phase = "built" =>
        /\ \A p \in Points : MarkedDeleted(p) <=> (forward[p + 1] = <<>>)
        /\ get_indexed_points(engine) = Cardinality(NonEmptyPoints)
        /\ forward = ScenarioForward =>
               /\ get_indexed_points(engine) = 2
               /\ get_values_count(engine) = 3
               /\ get_unique_values_count(engine) = 2
               /\ get_count_for_value(engine, "a") = Some(2)

\* The scenario's maps were just built.
C6_Witness ==
    /\ phase = "built"
    /\ forward = ScenarioForward

C8_InvertedSideKeepsDeleted ==
    Built =>
        /\ \A v \in Values :
               /\ get_count_for_value(engine, v) = SourceCount(v)
               /\ get_iterator(engine, v) = SourcePoints(v)
        /\ get_unique_values_count(engine) = Cardinality(DOMAIN inverted)
        /\ iter_counts_per_value(engine)
               = {<<v, Len(inverted[v])>> : v \in DOMAIN inverted}

\* A removed point is still listed by get_iterator for one of its values.
C8_Witness ==
    /\ Built
    /\ touched
    /\ \E v \in Values :
          \E p \in SeqRange(get_iterator(engine, v)) :
              MarkedDeleted(p) /\ get_values(engine, Bits, p) = None

\* The index kind a builder variant finalizes into.
builder_index_kind(variant) ==
    CASE variant = "IntMmapIndex" -> "IntIndex"
      [] variant = "FloatMmapIndex" -> "FloatIndex"
      [] variant = "DatetimeMmapIndex" -> "DatetimeIndex"
      [] variant = "UuidMmapIndex" -> "UuidIndex"
      [] OTHER -> variant

\* The index kinds of a result, in order.
IndexKinds(result) == [i \in 1..Len(result) |-> result[i].variant]

BuilderKinds(result) ==
    [i \in 1..Len(result) |-> builder_index_kind(result[i].variant)]

\* C9: for every schema and every choice of frozen directory, the builders
\* index_builder_selector returns correspond, one for one and in order, to
\* the index kinds index_selector returns for that schema.
C9_BuilderFollowsSelector ==
    (call.op = "index_builder_selector" /\ call.result.status = "ok") =>
        BuilderKinds(call.result.value)
            = IndexKinds(index_selector(call.field, call.schema, call.mmap_index_dir,
                                        TRUE, TRUE).value)

\* The variants of a selector or builder result, mmap builders as their kind.
CallKinds ==
    IF call.op = "index_builder_selector"
    THEN BuilderKinds(call.result.value)
    ELSE IndexKinds(call.result.value)

\* C10: for an Integer schema, index_selector and index_builder_selector
\* return the lookup map index then the range index when both flags are set,
\* and exactly the one corresponding entry when only one flag is set.
C10_IntegerLookupBeforeRange ==
    (call.op # "none" /\ call.schema.type = "Integer" /\ call.result.status = "ok") =>
        /\ (call.schema.lookup /\ call.schema.range) =>
               CallKinds = <<"IntMapIndex", "IntIndex">>
        /\ (call.schema.lookup /\ ~call.schema.range) =>
               CallKinds = <<"IntMapIndex">>
        /\ (~call.schema.lookup /\ call.schema.range) =>
               CallKinds = <<"IntIndex">>

\* index_selector returned two handles for Integer { lookup, range }.
C10_Witness ==
    /\ call.op = "index_selector"
    /\ call.schema.type = "Integer"
    /\ call.schema.lookup /\ call.schema.range
    /\ call.result.status = "ok"
    /\ Len(call.result.value) = 2

RangeKinds == {"IntIndex", "FloatIndex", "DatetimeIndex", "UuidIndex"}

\* C12: index_selector loads a frozen (mmap) index if and only if a frozen
\* directory is supplied and the index is a range index (integer range,
\* float, datetime, uuid); keyword, integer lookup, geo, text and boolean
\* indexes, and every range index when no directory is given, are opened on
\* the appendable backing store.
C12_FrozenOnlyForRangeWithDir ==
    (call.op = "index_selector" /\ call.result.status = "ok") =>
        \A i \in 1..Len(call.result.value) :
            LET ix == call.result.value[i]
            IN /\ (ix.inner.ctor = "new_mmap")
                      <=> (IsSome(call.mmap_index_dir) /\ ix.variant \in RangeKinds)
               /\ (ix.inner.ctor = "new") <=> ~(ix.inner.ctor = "new_mmap")
               /\ (ix.inner.ctor = "new_mmap") => ix.inner.dir = call.mmap_index_dir

\* With a frozen directory, Integer { lookup, range } gave a lookup index on
\* the backing store and a frozen range index.
C12_Witness ==
    /\ call.op = "index_selector"
    /\ call.result.status = "ok"
    /\ IsSome(call.mmap_index_dir)
    /\ Len(call.result.value) = 2
    /\ call.result.value[1].inner.ctor = "new"
    /\ call.result.value[2].inner.ctor = "new_mmap"

\* C13: remove_point(p) for a point p at or beyond the number of points of
\* the point-to-values store, padding slots of the bit vector included, is a
\* no-op, and the deleted count never exceeds the number of forward entries.
C13_OutOfRangeRemoveIsNoOp ==
    Built =>
        /\ \A p \in PointArgs :
               p >= MmapPointToValues_len(engine.point_to_values) =>
                   /\ remove_point(engine, Bits, p) = engine
                   /\ get_indexed_points(remove_point(engine, Bits, p))
                          = get_indexed_points(engine)
        /\ engine.deleted_count <= MmapPointToValues_len(engine.point_to_values)

\* C14: for every point index p at or beyond the known point count, inside
\* the padding of the bit vector or beyond its length, get_values(p) and
\* values_count(p) are absent in every reachable state.
C14_OutOfRangeAbsent ==
    Built =>
        \A p \in PointArgs :
            p >= MmapPointToValues_len(engine.point_to_values) =>
                /\ get_values(engine, Bits, p) = None
                /\ values_count(engine, Bits, p) = None

\* After removals, a padding slot just past the last point is still
\* unmarked, and an index past the bit vector is probed too.
C14_Witness ==
    /\ Built
    /\ touched
    /\ Len(forward) >= 1
    /\ Len(forward) < BufferedWrapper_len(Bits)
    /\ ~MarkedDeleted(Len(forward))
    /\ \E p \in PointArgs : p >= BufferedWrapper_len(Bits)

\* C18: for every number of points n, deleted.bin as build creates it has a
\* length in bits that is a multiple of 64 and at least n, and every padding
\* bit at an index >= n is false.
C18_DeletedBitsPadded ==
    /\ \A n \in 0..MaxFlags :
           LET bits == create_and_ensure_length(deleted_file_bytes(n))
           IN /\ MmapBitSlice_len(bits) % 64 = 0
              /\ MmapBitSlice_len(bits) >= n
    /\ phase = "built" =>
           /\ MmapBitSlice_len(Bits) % 64 = 0
           /\ MmapBitSlice_len(Bits) >= Len(forward)
           /\ MmapBitSlice_len(Bits)
                  = MmapBitSlice_len(create_and_ensure_length(deleted_file_bytes(Len(forward))))
           /\ \A p \in Bits.ones : p < Len(forward)
           /\ \A p \in PointArgs :
                  (p >= Len(forward) /\ p < MmapBitSlice_len(Bits)) =>
                      BufferedWrapper_get(engine.deleted, Bits, p) = Some(FALSE)

\* A build of MaxPoints points, one of them without values: the bit vector
\* has padding slots and a set flag.
C18_Witness ==
    /\ phase = "built"
    /\ Len(forward) = MaxPoints
    /\ Bits.ones # {}
    /\ MmapBitSlice_len(Bits) > Len(forward)

\* The bits that read true through the update buffer.
BitsSet(e, bits) ==
    {p \in e.deleted \cup bits.ones : BufferedWrapper_get(e.deleted, bits, p) = Some(TRUE)}

\* C19: in every reachable state of an engine, deleted_count is the number
\* of bits that read true through the update buffer, and a remove_point call
\* raises it by one when it flips a bit and by zero otherwise.
C19_DeletedCountIsBitsSet ==
    Built =>
        /\ engine.deleted_count = Cardinality(BitsSet(engine, Bits))
        /\ \A p \in PointArgs :
               LET after == remove_point(engine, Bits, p)
               IN /\ after.deleted_count = Cardinality(BitsSet(after, Bits))
                  /\ after.deleted_count - engine.deleted_count
                         = Cardinality(BitsSet(after, Bits) \ BitsSet(engine, Bits))
                  /\ after.deleted_count - engine.deleted_count \in {0, 1}

\* Flags set by build, flushed removals and a pending removal are all counted.
C19_Witness ==
    /\ Built
    /\ touched
    /\ engine.deleted # {}
    /\ \E p \in Bits.ones : p \in NonEmptyPoints
    /\ \E p \in Bits.ones : p \in Points /\ p \notin NonEmptyPoints

\* C16: files() lists every file that build writes; clear() enumerates those
\* files while the engine is still open, removes none of them before the
\* engine is dropped, and after a clear() that returned Ok none of the files
\* written by build is left in the directory.
C16_ClearRemovesBuildFiles ==
    /\ EngineOpen => ExistingFiles(fs) \subseteq SeqRange(files)
    /\ phase = "clearing" => clear_files = files /\ SeqRange(files) \subseteq ExistingFiles(fs)
    /\ phase \in {"dropped", "clear_failed", "cleared"} => ExistingFiles(fs) = SeqRange(clear_files)
    /\ phase = "cleared" => ExistingFiles(fs) = {}

\* A clear() of an index built over at least one point has returned Ok.
C16_Witness == phase = "cleared" /\ Len(forward) > 0

\* A file of the directory is missing or cannot be parsed.
SomeFileUnusable ==
    \E name \in SeqRange(files) : ~IsSome(fs[FileField(name)])

\* C17: load returns an error and no engine whenever one of the four files is
\* missing or malformed, build returns an error and no engine whenever one of
\* its steps fails, and the directory left by a build that failed before its
\* last step (the load of line 116) cannot be loaded.
C17_NoPartialEngine ==
    /\ SomeFileUnusable => load(fs) = None
    /\ phase \in {"build_failed", "load_failed"} => engine = BlankEngine
    /\ phase = "build_failed" => load(fs) = None

\* C15: a read that runs beside remove_point on the same engine returns, for
\* the point it reads, either the complete list of values the point was built
\* with or absent, never anything else; and once a read of the point has
\* returned absent, every later read of it returns absent.
C15_ReadsAreOldOrDeleted ==
    reader.pc = "done" =>
        /\ \/ reader.result = None
           \/ /\ reader.idx < Len(forward)
              /\ reader.result = Some(forward[reader.idx + 1])
        /\ reader.prior => reader.result = None

\* A read of a point with values tested the flag, the point was removed before
\* the read took the values, and the read returned them all the same.
C15_Witness ==
    /\ reader.pc = "done"
    /\ reader.idx < Len(forward)
    /\ reader.result = Some(forward[reader.idx + 1])
    /\ forward[reader.idx + 1] # <<>>
    /\ reader.idx \in engine.deleted

=============================================================================
